---- MODULE Spec2Model ----
(***************************************************************************)
(* Model of mwavepy/parameterizedStandard.py: the ParameterizedStandard    *)
(* class (a named-parameter dictionary, fixed keyword arguments and a      *)
(* generator function) and the constructors that wire it.                  *)
(*                                                                         *)
(* Python objects are modelled by reference: every dictionary lives at a   *)
(* location of `heap`, and an instance attribute that holds a dictionary   *)
(* holds its location.  The dictionary created once for the default value  *)
(* of the `parameters` argument of __init__ has its own location.          *)
(***************************************************************************)
EXTENDS Integers, Sequences, FiniteSets, TLC

\* ------------------------------------------------------------------ bounds
\* longest sequence assigned to parameter_array
MaxLen == 3
\* most reads of network / s in one behaviour
MaxReads == 2

\* the standards of one calibration run
Instances == {"p1", "p2"}

\* ------------------------------------------------------------ python values
\* A python str is its sequence of code points.
K_Gamma0 == <<71, 97, 109, 109, 97, 48>>
K_d == <<100>>
K_delta_a == <<100, 101, 108, 116, 97, 95, 97>>
K_freq == <<102, 114, 101, 113>>

\* names that occur as keys of a parameters dictionary
ParameterNames == {K_Gamma0, K_d, K_delta_a}

\* A python number: its type and its value in tenths.
PyInt(k) == [type |-> "int", n |-> 10 * k]
PyFloat(tenths) == [type |-> "float", n |-> tenths]
Values == {PyInt(0), PyFloat(2)}

\* the dictionary {}
EmptyDict == [k \in {} |-> PyInt(0)]

\* the **kwargs a caller passes to a constructor
KwargChoices ==
  { EmptyDict,
    [k \in {K_d, K_freq} |-> IF k = K_d THEN PyInt(0) ELSE PyFloat(2)] }

\* sequences assigned to parameter_array
RECURSIVE SeqsUpTo(_)
SeqsUpTo(n) ==
  IF n = 0 THEN {<< >>}
  ELSE LET shorter == SeqsUpTo(n - 1)
       IN shorter \cup {Append(s, v) : s \in {t \in shorter : Len(t) = n - 1}, v \in Values}
InputArrays == SeqsUpTo(MaxLen)

\* --------------------------------------------------------------- locations
DefaultLoc == <<"default", "-">>
TmpLoc == <<"tmp_args", "-">>
ParametersLoc(self) == <<"parameters", self>>
KwargsLoc(self) == <<"kwargs", self>>
Locations ==
  {DefaultLoc, TmpLoc} \cup {ParametersLoc(i) : i \in Instances}
                       \cup {KwargsLoc(i) : i \in Instances}

VARIABLES
  heap,        \* location -> dictionary
  function,    \* self.function: "unset" before construction, else the callable
  parameters,  \* self.parameters: a location
  kwargs,      \* self.kwargs: a location
  calls,       \* invocations of generator functions so far
  reads,       \* reads of network / s so far
  last         \* the last operation: its name, instance, input and outcome

vars == <<heap, function, parameters, kwargs, calls, reads, last>>

Constructed(self) == function[self] # "unset"

\* ------------------------------------------------------- str comparison
Min(a, b) == IF a < b THEN a ELSE b

\* python's  a < b  on two str: lexicographic by code point
StrLess(a, b) ==
  \/ \E i \in 1..Min(Len(a), Len(b)) :
        /\ \A j \in 1..(i - 1) : a[j] = b[j]
        /\ a[i] < b[i]
  \/ /\ Len(a) < Len(b)
     /\ \A j \in 1..Len(a) : a[j] = b[j]

\* ------------------------------------------------------------- list.sort
\* Insert with the comparison the wrong way round
RECURSIVE Insert_descending(_, _)
Insert_descending(sorted, k) ==
  IF sorted = << >> THEN <<k>>
  ELSE IF StrLess(Head(sorted), k) THEN <<k>> \o sorted
  ELSE <<Head(sorted)>> \o Insert_descending(Tail(sorted), k)

RECURSIVE Insert(_, _)
Insert(sorted, k) ==
  IF sorted = << >> THEN <<k>>
  ELSE IF StrLess(k, Head(sorted)) THEN <<k>> \o sorted
  ELSE <<Head(sorted)>> \o Insert(Tail(sorted), k)

\* ListSort without the sort: the keys as keys() listed them
ListSort_unsorted(keys) == keys

RECURSIVE ListSort(_)
ListSort(keys) ==
  IF keys = << >> THEN << >>
  ELSE Insert(ListSort(Tail(keys)), Head(keys))

\* ------------------------------------------------------------- dict.keys
\* dict.keys() lists the keys in an arbitrary order: every enumeration of
\* the key set is a possible result.
RECURSIVE Enumerations(_)
Enumerations(S) ==
  IF S = {} THEN {<< >>}
  ELSE UNION {{<<k>> \o rest : rest \in Enumerations(S \ {k})} : k \in S}

DictKeys(d) == Enumerations(DOMAIN d)

\* -------------------------------------------------------- parameter_keys
\* the lists the property can return, one for each order keys() may give
parameter_keys(h, self) ==
  {ListSort(keys) : keys \in DictKeys(h[parameters[self]])}

\* --------------------------------------------------------------- npy.array
\* numpy gives the array one dtype: float as soon as one element is a float
npy_array(list) ==
  IF \E i \in 1..Len(list) : list[i].type = "float"
  THEN [i \in 1..Len(list) |-> [type |-> "float", n |-> list[i].n]]
  ELSE list

\* parameter_array that stops one key short
parameter_array_short(h, self) ==
  {npy_array([i \in 1..(Len(keys) - 1) |-> h[parameters[self]][keys[i]]]) :
     keys \in parameter_keys(h, self)}

\* ------------------------------------------------ parameter_array (getter)
parameter_array(h, self) ==
  {npy_array([i \in 1..Len(keys) |-> h[parameters[self]][keys[i]]]) :
     keys \in parameter_keys(h, self)}

\* SetterLoop without  counter += 1
RECURSIVE SetterLoop_stuck(_, _, _, _)
SetterLoop_stuck(d, keys, input_array, counter) ==
  IF keys = << >> THEN [dict |-> d, result |-> "ok"]
  ELSE IF counter >= Len(input_array) THEN [dict |-> d, result |-> "IndexError"]
  ELSE SetterLoop_stuck([d EXCEPT ![Head(keys)] = input_array[counter + 1]],
                        Tail(keys), input_array, counter)

\* ------------------------------------------------ parameter_array (setter)
\* the loop of the setter: counter is the python index, from 0
RECURSIVE SetterLoop(_, _, _, _)
SetterLoop(d, keys, input_array, counter) ==
  IF keys = << >> THEN [dict |-> d, result |-> "ok"]
  ELSE IF counter >= Len(input_array) THEN [dict |-> d, result |-> "IndexError"]
  ELSE SetterLoop([d EXCEPT ![Head(keys)] = input_array[counter + 1]],
                  Tail(keys), input_array, counter + 1)

\* ------------------------------------------------------ number_of_parameters
number_of_parameters(h, self) == {Len(keys) : keys \in parameter_keys(h, self)}

\* ------------------------------------------------------------------ network
\* Copy that hands back the dictionary itself
Copy_alias(h, loc) == [heap |-> h, loc |-> loc]

\* copy(d): a new dictionary with the entries of d
Copy(h, loc) == [heap |-> [h EXCEPT ![TmpLoc] = h[loc]], loc |-> TmpLoc]

\* DictUpdate that keeps the entries already present
DictUpdate_keep(h, loc, other) ==
  [h EXCEPT ![loc] =
     [k \in (DOMAIN h[loc]) \cup (DOMAIN other) |->
        IF k \in DOMAIN h[loc] THEN h[loc][k] ELSE other[k]]]

\* d.update(other), in place
DictUpdate(h, loc, other) ==
  [h EXCEPT ![loc] =
     [k \in (DOMAIN h[loc]) \cup (DOMAIN other) |->
        IF k \in DOMAIN other THEN other[k] ELSE h[loc][k]]]

\* self.function(**tmp_args): the lambda of PS_Parameterless takes no
\* argument; a generator function returns or raises as its own code decides
FunctionCall(f, args, outcome) ==
  IF f = "lambda: ideal_network"
  THEN IF DOMAIN args = {} THEN "returned" ELSE "TypeError"
  ELSE outcome

\* network that keeps the arguments of the previous read of the standard
network_cached(self, outcome) ==
  IF last.op \in {"network", "s"} /\ last.inst = self
  THEN [heap |-> heap, args |-> last.args, calls |-> calls, result |-> last.result]
  ELSE LET copied == Copy(heap, kwargs[self])
           merged == DictUpdate(copied.heap, copied.loc, heap[parameters[self]])
           args == merged[copied.loc]
       IN [heap |-> [merged EXCEPT ![TmpLoc] = EmptyDict],
           args |-> args,
           calls |-> calls + 1,
           result |-> FunctionCall(function[self], args, outcome)]

network(self, outcome) ==
  LET copied == Copy(heap, kwargs[self])
      merged == DictUpdate(copied.heap, copied.loc, heap[parameters[self]])
      args == merged[copied.loc]
  IN [heap |-> [merged EXCEPT ![TmpLoc] = EmptyDict],
      args |-> args,
      calls |-> calls + 1,
      result |-> FunctionCall(function[self], args, outcome)]

\* -------------------------------------------------------------- operations
NoInput == << >>
Op(name, self, input, result, args) ==
  [op |-> name, inst |-> self, input |-> input, result |-> result, args |-> args]

TypeOK ==
  /\ DOMAIN heap = Locations
  /\ function \in [Instances -> {"unset", "generator", "lambda: ideal_network"}]
  /\ calls \in 0..MaxReads
  /\ reads \in 0..MaxReads

Init ==
  /\ heap = [l \in Locations |-> EmptyDict]
  /\ function = [i \in Instances |-> "unset"]
  /\ parameters = [i \in Instances |-> DefaultLoc]
  /\ kwargs = [i \in Instances |-> KwargsLoc(i)]
  /\ calls = 0
  /\ reads = 0
  /\ last = Op("none", "-", NoInput, "ok", EmptyDict)

\* ParameterizedStandard.__init__(self, function, parameters, **kwargs)
\* where parametersLoc is the dictionary object bound to `parameters`
PS_init(self, f, parametersLoc, h, kw, name) ==
  /\ heap' = [h EXCEPT ![KwargsLoc(self)] = kw]
  /\ kwargs' = [kwargs EXCEPT ![self] = KwargsLoc(self)]
  /\ parameters' = [parameters EXCEPT ![self] = parametersLoc]
  /\ function' = [function EXCEPT ![self] = f]
  /\ last' = Op(name, self, NoInput, "ok", EmptyDict)
  /\ UNCHANGED <<calls, reads>>

\* ParameterizedStandard(function=g, parameters={...}, **kw)
Construct(self, params, kw) ==
  /\ ~Constructed(self)
  /\ PS_init(self, "generator", ParametersLoc(self),
             [heap EXCEPT ![ParametersLoc(self)] = params], kw, "Construct")

\* ParameterizedStandard(function=g, **kw): parameters takes its default
ConstructDefault(self, kw) ==
  /\ ~Constructed(self)
  /\ PS_init(self, "generator", DefaultLoc, heap, kw, "ConstructDefault")

\* PS_Parameterless(ideal_network)
PS_Parameterless(self) ==
  /\ ~Constructed(self)
  /\ PS_init(self, "lambda: ideal_network", DefaultLoc, heap, EmptyDict,
             "PS_Parameterless")

\* PS_DelayShort_UnknownLength(wb, d, **kw)
PS_DelayShort_UnknownLength(self, d, kw) ==
  /\ ~Constructed(self)
  /\ K_d \notin DOMAIN kw
  /\ PS_init(self, "generator", ParametersLoc(self),
             [heap EXCEPT ![ParametersLoc(self)] = [k \in {K_d} |-> d]], kw,
             "PS_DelayShort_UnknownLength")

\* self.parameter_array = input_array
SetParameterArray(self, input_array) ==
  /\ Constructed(self)
  /\ \E keys \in parameter_keys(heap, self) :
       LET r == SetterLoop(heap[parameters[self]], keys, input_array, 0)
       IN /\ heap' = [heap EXCEPT ![parameters[self]] = r.dict]
          /\ last' = Op("set_parameter_array", self, input_array, r.result, EmptyDict)
  /\ UNCHANGED <<function, parameters, kwargs, calls, reads>>

\* self.parameters[k] = v, written by the caller
DictSetItem(self, k, v) ==
  /\ Constructed(self)
  /\ LET d == heap[parameters[self]]
     IN heap' = [heap EXCEPT ![parameters[self]] =
                   [j \in (DOMAIN d) \cup {k} |-> IF j = k THEN v ELSE d[j]]]
  /\ last' = Op("setitem", self, <<v>>, "ok", EmptyDict)
  /\ UNCHANGED <<function, parameters, kwargs, calls, reads>>

\* self.network
ReadNetwork(self, outcome) ==
  /\ Constructed(self)
  /\ reads < MaxReads
  /\ LET r == network(self, outcome)
     IN /\ heap' = r.heap
        /\ calls' = r.calls
        /\ last' = Op("network", self, NoInput, r.result, r.args)
  /\ reads' = reads + 1
  /\ UNCHANGED <<function, parameters, kwargs>>

\* self.s: self.network.s
ReadS(self, outcome) ==
  /\ Constructed(self)
  /\ reads < MaxReads
  /\ LET r == network(self, outcome)
     IN /\ heap' = r.heap
        /\ calls' = r.calls
        /\ last' = Op("s", self, NoInput, r.result, r.args)
  /\ reads' = reads + 1
  /\ UNCHANGED <<function, parameters, kwargs>>

Outcomes == {"returned", "raised"}

\* the steps of the standards `insts` whose callers use the parameter names
\* `names` and the keyword arguments `kws`
NextOver(insts, names, kws) ==
  \/ \E self \in insts, kw \in kws :
       \E S \in SUBSET names : \E params \in [S -> Values] :
         Construct(self, params, kw)
  \/ \E self \in insts, kw \in kws : ConstructDefault(self, kw)
  \/ \E self \in insts : PS_Parameterless(self)
  \/ \E self \in insts, d \in Values, kw \in kws :
       PS_DelayShort_UnknownLength(self, d, kw)
  \/ \E self \in insts, input_array \in InputArrays :
       SetParameterArray(self, input_array)
  \/ \E self \in insts, k \in names, v \in Values :
       DictSetItem(self, k, v)
  \/ \E self \in insts, outcome \in Outcomes : ReadNetwork(self, outcome)
  \/ \E self \in insts, outcome \in Outcomes : ReadS(self, outcome)

\* one standard, every parameter name
Next == NextOver({"p1"}, ParameterNames, KwargChoices)
Spec == Init /\ [][Next]_vars

\* two standards of one run, over the one name of a delay short
SharedNames == {K_d}
NextShared == NextOver(Instances, SharedNames, KwargChoices)
SpecShared == Init /\ [][NextShared]_vars

\* ------------------------------------------------------------- properties
\* the parameters dictionary of a standard
ParametersOf(self) == heap[parameters[self]]
KwargsOf(self) == heap[kwargs[self]]

\* lexicographic order of two names, as the specification words it: the
\* first differing character decides, and a proper prefix comes first
LexBefore(a, b) ==
  LET n == IF Len(a) < Len(b) THEN Len(a) ELSE Len(b)
      differ == {i \in 1..n : a[i] # b[i]}
  IN IF differ = {} THEN Len(a) < Len(b)
     ELSE LET first == CHOOSE i \in differ : \A j \in differ : i <= j
          IN a[first] < b[first]

\* the one sequence that lists the set S in ascending lexicographic order
Ascending(S) ==
  CHOOSE s \in Enumerations(S) :
    \A i \in 1..Len(s) : \A j \in 1..Len(s) : i < j => LexBefore(s[i], s[j])

\* element-wise numeric equality of two sequences (numpy's ==)
NumEq(a, b) ==
  /\ Len(a) = Len(b)
  /\ \A i \in 1..Len(a) : a[i].n = b[i].n

IsWrite(o) == o.op \in {"set_parameter_array", "setitem"}
IsRead(o) == o.op \in {"network", "s"}

\* C1: an assignment to parameter_array of a sequence whose length differs
\* from number_of_parameters fails and leaves the parameters as they were.
C1_LengthMismatchRejected ==
  [][ ( /\ last'.op = "set_parameter_array"
        /\ Len(last'.input) # Cardinality(DOMAIN ParametersOf(last'.inst)) )
      => ( /\ last'.result # "ok"
           /\ heap' = heap ) ]_vars

\* C2: after assigning v of the right length to parameter_array, a read of
\* parameter_array returns a sequence equal to v element by element.
C2_RoundTrip ==
  ( /\ last.op = "set_parameter_array"
    /\ Len(last.input) = Cardinality(DOMAIN ParametersOf(last.inst)) )
  => \A arr \in parameter_array(heap, last.inst) : NumEq(arr, last.input)

C2_Witness ==
  /\ last.op = "set_parameter_array"
  /\ last.input = <<PyFloat(2), PyInt(0), PyFloat(2)>>
  /\ DOMAIN ParametersOf(last.inst) = ParameterNames

\* C3: a successful assignment of v to parameter_array gives the i-th key
\* in ascending order the value v[i] and leaves the key set as it was.
C3_WriteByAscendingKey ==
  [][ ( /\ last'.op = "set_parameter_array"
        /\ last'.result = "ok" )
      => LET self == last'.inst
             before == heap[parameters[self]]
             after == heap'[parameters[self]]
             asc == Ascending(DOMAIN before)
         IN /\ DOMAIN after = DOMAIN before
            /\ Len(asc) <= Len(last'.input)
            /\ \A i \in 1..Len(asc) : after[asc[i]] = last'.input[i] ]_vars

C3_Witness ==
  /\ last.op = "set_parameter_array"
  /\ last.result = "ok"
  /\ last.input = <<PyFloat(2), PyInt(0)>>
  /\ ParametersOf(last.inst) =
       [k \in {K_d, K_delta_a} |-> IF k = K_d THEN PyFloat(2) ELSE PyInt(0)]

\* C4: parameter_keys is exactly the keys of parameters, each once, in
\* ascending lexicographic order, whatever order the dictionary lists them
\* in; and every read of parameter_array in one state gives one sequence.
C4_KeysAscending ==
  \A self \in Instances :
    Constructed(self) =>
      /\ parameter_keys(heap, self) = {Ascending(DOMAIN ParametersOf(self))}
      /\ Cardinality(parameter_array(heap, self)) = 1

C4_Witness ==
  /\ last.op = "setitem"
  /\ parameter_keys(heap, last.inst) = {<<K_Gamma0, K_d, K_delta_a>>}
  /\ <<K_delta_a, K_d, K_Gamma0>> \in DictKeys(ParametersOf(last.inst))

\* C5: network passes the generator exactly the names of fixed_arguments
\* and parameters, a name of parameters with its value from parameters
\* and any other name with its value from fixed_arguments.
C5_ParametersOverride ==
  IsRead(last) =>
    LET ps == ParametersOf(last.inst)
        kw == KwargsOf(last.inst)
    IN /\ DOMAIN last.args = (DOMAIN ps) \cup (DOMAIN kw)
       /\ \A k \in DOMAIN last.args :
            last.args[k] = IF k \in DOMAIN ps THEN ps[k] ELSE kw[k]

C5_Witness ==
  /\ last.op = "network"
  /\ ParametersOf(last.inst) =
       [k \in {K_d, K_Gamma0} |-> IF k = K_d THEN PyFloat(2) ELSE PyInt(0)]
  /\ DOMAIN KwargsOf(last.inst) = {K_d, K_freq}
  /\ KwargsOf(last.inst)[K_d] = PyInt(0)
  /\ last.args[K_d] = PyFloat(2)

\* C6: for two standards both constructed without a parameters argument, a
\* write to the parameters of one leaves the parameters of the other as
\* they were.
C6_NoSharedDefault ==
  [][ \A i \in Instances : \A j \in Instances \ {i} :
        ( /\ Constructed(i) /\ Constructed(j)
          /\ parameters[i] = DefaultLoc /\ parameters[j] = DefaultLoc
          /\ IsWrite(last') /\ last'.inst = i )
        => /\ heap'[parameters[j]] = heap[parameters[j]]
           /\ parameter_keys(heap', j) = parameter_keys(heap, j)
           /\ parameter_array(heap', j) = parameter_array(heap, j)
           /\ number_of_parameters(heap', j) = number_of_parameters(heap, j) ]_vars

\* C7: a standard constructed with an empty parameters mapping, every
\* PS_Parameterless included, has no parameter and an empty
\* parameter_array, and its generator is passed the fixed arguments alone.
C7_ZeroParameters ==
  last.op \in {"PS_Parameterless", "ConstructDefault"} =>
    /\ number_of_parameters(heap, last.inst) = {0}
    /\ parameter_array(heap, last.inst) = {<< >>}
    /\ network(last.inst, "returned").args = KwargsOf(last.inst)
    /\ network(last.inst, "returned").result = "returned"

\* C8: every read of network or s invokes the generator once, with the
\* parameter values of the moment of the read.
C8_NoCaching ==
  /\ calls = reads
  /\ IsRead(last) =>
       \A k \in DOMAIN ParametersOf(last.inst) :
         /\ k \in DOMAIN last.args
         /\ last.args[k] = ParametersOf(last.inst)[k]

C8_Witness ==
  /\ last.op = "s"
  /\ reads = 2
  /\ calls = 2
  /\ ParametersOf(last.inst) = [k \in {K_d} |-> PyFloat(2)]
  /\ K_d \in DOMAIN KwargsOf(last.inst)
  /\ KwargsOf(last.inst)[K_d] = PyInt(0)

\* C9: a read of network or s, whether the generator returns or raises,
\* leaves fixed_arguments and parameters of every standard as they were.
C9_ReadMutatesNothing ==
  [][ IsRead(last') =>
        /\ kwargs' = kwargs
        /\ parameters' = parameters
        /\ \A self \in Instances :
             /\ heap'[kwargs[self]] = heap[kwargs[self]]
             /\ heap'[parameters[self]] = heap[parameters[self]] ]_vars

C9_Witness ==
  /\ last.op = "network"
  /\ last.result = "raised"
  /\ DOMAIN ParametersOf(last.inst) = {K_Gamma0, K_d}
  /\ DOMAIN KwargsOf(last.inst) = {K_d, K_freq}

\* C10: in every state the lengths of parameter_array and parameter_keys
\* and number_of_parameters all equal the number of keys of parameters.
C10_LengthsAgree ==
  \A self \in Instances :
    Constructed(self) =>
      \A arr \in parameter_array(heap, self) :
        \A keys \in parameter_keys(heap, self) :
          \A n \in number_of_parameters(heap, self) :
            /\ Len(arr) = Len(keys)
            /\ Len(keys) = n
            /\ n = Cardinality(DOMAIN ParametersOf(self))

C10_Witness ==
  /\ last.op = "set_parameter_array"
  /\ last.result = "IndexError"
  /\ Cardinality(DOMAIN ParametersOf(last.inst)) = 3
  /\ \A arr \in parameter_array(heap, last.inst) : Len(arr) = 3

====
